---- MODULE Spec2Model ----
(***************************************************************************)
(* Hash-tree differencing engine of NodeConfigLoder (FindDifferences.ts).  *)
(*                                                                         *)
(* A snapshot (JSON-like value) is a record                                *)
(*     [k |-> "prim" | "arr" | "obj", s |-> JSON text of a primitive,      *)
(*      e |-> own enumerable properties, in JavaScript enumeration order]  *)
(* and a hash-tree node is [hash |-> the __hash property, kids |-> the     *)
(* other own properties, in JavaScript enumeration order].                 *)
(* SHA-256 is idealised as a collision-free function: the digest of a      *)
(* string is that string in a wrapper.                                     *)
(***************************************************************************)
EXTENDS Integers, Sequences, FiniteSets, TLC

(***************************************************************************)
(* Bounds of the model.                                                    *)
(***************************************************************************)
MaxLen == 2      \* arrays of numbers have at most MaxLen elements
MaxDepth == 3    \* plain objects are nested at most MaxDepth deep
MaxIndex == 10   \* property names "0".."MaxIndex" are array-index names

(***************************************************************************)
(* JavaScript objects: property order, `in`, property read, truthiness.    *)
(***************************************************************************)

\* Names the engine reserves or tests.
HashKey == "__hash"
TypeKey == "type"
ObjectObject == "[object Object]"

\* The property names of the model in UTF-16 code unit order, the order of
\* Array.prototype.sort() without a comparator.
KeyOrder ==
  <<"", "0", "1", "10", "2", "__hash", "a", "b", "c", "length", "payload",
    "type">>

IsIndex(key) == \E i \in 0..MaxIndex : ToString(i) = key

RECURSIVE IndexEntries(_, _)
IndexEntries(entries, i) ==
  IF i > MaxIndex THEN <<>>
  ELSE SelectSeq(entries, LAMBDA x : x.key = ToString(i))
         \o IndexEntries(entries, i + 1)

\* Own-property enumeration order of an object whose properties were
\* created in the order of `entries`: array-index names in ascending
\* numeric order, then the other names in creation order.
JsOrder(entries) ==
  IndexEntries(entries, 0) \o SelectSeq(entries, LAMBDA x : ~IsIndex(x.key))

Keys(entries) == {entries[i].key : i \in 1..Len(entries)}

Lookup(entries, key) ==
  entries[CHOOSE i \in 1..Len(entries) : entries[i].key = key]

\* Snapshot constructors.
Prim(text) == [k |-> "prim", s |-> text, e |-> <<>>]
Num(i) == Prim(ToString(i))
Null == Prim("null")
Str(t) == Prim("\"" \o t \o "\"")
Arr(items) ==
  [k |-> "arr", s |-> "",
   e |-> [i \in 1..Len(items) |-> [key |-> ToString(i - 1), val |-> items[i]]]]
Obj(entries) == [k |-> "obj", s |-> "", e |-> JsOrder(entries)]
P(key, val) == [key |-> key, val |-> val]

\* An object one of whose properties refers to the object itself: `entries`
\* are its other properties.
Circular(entries) == [k |-> "obj", s |-> "circular", e |-> JsOrder(entries)]

\* typeof v === 'object' && v !== null
IsObject(v) == v.k # "prim"

\* JavaScript truthiness of a JSON value.
Truthy(v) ==
  IsObject(v) \/ v.s \notin {"null", "undefined", "false", "0", "\"\""}

\* `key in v` for an object or array v (own properties, and an array's length).
HasProp(v, key) == key \in Keys(v.e) \/ (v.k = "arr" /\ key = "length")

\* v[key] for a key with HasProp(v, key).
GetProp(v, key) ==
  IF key \in Keys(v.e) THEN Lookup(v.e, key).val ELSE Num(Len(v.e))

\* v.type is truthy (an array has no type property).
HasType(v) ==
  /\ v.k = "obj"
  /\ TypeKey \in Keys(v.e)
  /\ Truthy(Lookup(v.e, TypeKey).val)

(***************************************************************************)
(* JSON.stringify                                                          *)
(***************************************************************************)
RECURSIVE Stringify(_)
RECURSIVE StringifyItems(_, _, _)
StringifyItems(entries, i, withKeys) ==
  IF i > Len(entries) THEN ""
  ELSE (IF i > 1 THEN "," ELSE "")
         \o (IF withKeys THEN "\"" \o entries[i].key \o "\":" ELSE "")
         \o Stringify(entries[i].val)
         \o StringifyItems(entries, i + 1, withKeys)

Stringify(v) ==
  IF v.k = "prim" THEN v.s
  ELSE IF v.k = "arr" THEN "[" \o StringifyItems(v.e, 1, FALSE) \o "]"
  ELSE "{" \o StringifyItems(v.e, 1, TRUE) \o "}"

\* JSON.stringify(v) returns: it raises a TypeError for a value with a
\* self-reference.
RECURSIVE Serializable(_)
Serializable(v) ==
  /\ v.s # "circular"
  /\ \A i \in 1..Len(v.e) : Serializable(v.e[i].val)

(***************************************************************************)
(* calculateHash: SHA-256, idealised as injective.                         *)
(***************************************************************************)
calculateHash(value) == "H(" \o value \o ")"

(***************************************************************************)
(* Hash-tree nodes.                                                        *)
(***************************************************************************)
Node(hash, kids) == [hash |-> hash, kids |-> kids]
K(key, node) == [key |-> key, node |-> node]

\* The string a template literal makes of child.__hash.
HashText(node) == node.hash

RECURSIVE JoinHashes(_, _)
JoinHashes(kids, i) ==
  IF i > Len(kids) THEN ""
  ELSE HashText(kids[i].node) \o JoinHashes(kids, i + 1)

\* Object.entries(node) without __hash, mapped to `${key}:${value.__hash}`
\* and joined with ''.
RECURSIVE JoinKeyHashes(_, _)
JoinKeyHashes(kids, i) ==
  IF i > Len(kids) THEN ""
  ELSE kids[i].key \o ":" \o HashText(kids[i].node)
         \o JoinKeyHashes(kids, i + 1)

\* Object.keys(data).sort()
SortedKeys(v) == SelectSeq(KeyOrder, LAMBDA key : key \in Keys(v.e))

(***************************************************************************)
(* buildHashTree                                                           *)
(***************************************************************************)
RECURSIVE buildHashTree(_)

\* Array.prototype.join('') over the child nodes themselves: every node is
\* written as '[object Object]'.
RECURSIVE JoinNodes(_, _)
JoinNodes(kids, i) ==
  IF i > Len(kids) THEN "" ELSE ObjectObject \o JoinNodes(kids, i + 1)

\* A variant of buildHashTree with a slip: the array case joins the child
\* nodes instead of their digests.
buildHashTree_JoinsNodes(data) ==
  IF ~IsObject(data) THEN Node(calculateHash(Stringify(data)), <<>>)
  ELSE IF data.k = "arr" THEN
    LET childHashes ==
          [i \in 1..Len(data.e) |->
             K(data.e[i].key, buildHashTree(data.e[i].val))]
    IN  Node(calculateHash(JoinNodes(childHashes, 1)), childHashes)
  ELSE IF HasType(data) THEN Node(calculateHash(Stringify(data)), <<>>)
  ELSE
    LET sorted == SortedKeys(data)
        childHashes ==
          JsOrder([i \in 1..Len(sorted) |->
                     K(sorted[i], buildHashTree(GetProp(data, sorted[i])))])
        combinedHash == calculateHash(JoinKeyHashes(childHashes, 1))
    IN  IF HashKey \in Keys(childHashes)
        THEN Node(ObjectObject,
                  SelectSeq(childHashes, LAMBDA c : c.key # HashKey))
        ELSE Node(combinedHash, childHashes)

\* A variant of buildHashTree with a slip: an object is opaque when it has
\* a type property, whatever its value.
buildHashTree_TypePresent(data) ==
  IF ~IsObject(data) THEN Node(calculateHash(Stringify(data)), <<>>)
  ELSE IF data.k = "arr" THEN
    LET childHashes ==
          [i \in 1..Len(data.e) |->
             K(data.e[i].key, buildHashTree(data.e[i].val))]
    IN  Node(calculateHash(JoinHashes(childHashes, 1)), childHashes)
  ELSE IF HasProp(data, TypeKey)
  THEN Node(calculateHash(Stringify(data)), <<>>)
  ELSE
    LET sorted == SortedKeys(data)
        childHashes ==
          JsOrder([i \in 1..Len(sorted) |->
                     K(sorted[i], buildHashTree(GetProp(data, sorted[i])))])
        combinedHash == calculateHash(JoinKeyHashes(childHashes, 1))
    IN  IF HashKey \in Keys(childHashes)
        THEN Node(ObjectObject,
                  SelectSeq(childHashes, LAMBDA c : c.key # HashKey))
        ELSE Node(combinedHash, childHashes)

buildHashTree(data) ==
  IF ~IsObject(data) THEN Node(calculateHash(Stringify(data)), <<>>)
  ELSE IF data.k = "arr" THEN
    LET childHashes ==
          [i \in 1..Len(data.e) |->
             K(data.e[i].key, buildHashTree(data.e[i].val))]
    IN  Node(calculateHash(JoinHashes(childHashes, 1)), childHashes)
  ELSE IF HasType(data) THEN Node(calculateHash(Stringify(data)), <<>>)
  ELSE
    LET sorted == SortedKeys(data)
        \* the reduce creates the properties of `tree` in sorted order
        childHashes ==
          JsOrder([i \in 1..Len(sorted) |->
                     K(sorted[i], buildHashTree(GetProp(data, sorted[i])))])
        combinedHash == calculateHash(JoinKeyHashes(childHashes, 1))
    IN  \* { __hash: combinedHash, ...childHashes }: a property of the data
        \* named __hash replaces the digest by its child node
        IF HashKey \in Keys(childHashes)
        THEN Node(ObjectObject,
                  SelectSeq(childHashes, LAMBDA c : c.key # HashKey))
        ELSE Node(combinedHash, childHashes)

\* Number of calculateHash calls buildHashTree(data) makes.
RECURSIVE BuildCalls(_)
RECURSIVE SumBuildCalls(_, _)
SumBuildCalls(entries, i) ==
  IF i > Len(entries) THEN 0
  ELSE BuildCalls(entries[i].val) + SumBuildCalls(entries, i + 1)

BuildCalls(data) ==
  IF ~IsObject(data) \/ HasType(data) THEN 1
  ELSE 1 + SumBuildCalls(data.e, 1)

(***************************************************************************)
(* findDifferencesAndUpdate and its passes.  Each returns the node as the  *)
(* call leaves it, the 'difference' events it emitted in order (ev), the   *)
(* number of calculateHash calls it made (calls), whether it raised        *)
(* (threw), and the paths of the nodes whose digest check failed (entered) *)
(* or succeeded (pruned).                                                  *)
(***************************************************************************)
Event(type, path) == [type |-> type, path |-> path]

\* path ? `${path}.${key}` : key
ChildPath(path, key) == IF path # "" THEN path \o "." \o key ELSE key

Result(node, ev, calls, threw, entered, pruned) ==
  [node |-> node, ev |-> ev, calls |-> calls, threw |-> threw,
   entered |-> entered, pruned |-> pruned]

\* The characters of the string primitives of the model: for..in over a
\* string enumerates its indices.
StringChars(v) ==
  IF v.s = "\"v\"" THEN <<P("0", Str("v"))>>
  ELSE IF v.s = "\"vw\"" THEN <<P("0", Str("v")), P("1", Str("w"))>>
  ELSE <<>>

\* The (key, value) pairs `for (const key in jsonData)` visits.
ForIn(jsonData) ==
  IF IsObject(jsonData) THEN jsonData.e ELSE StringChars(jsonData)

RECURSIVE findDifferencesAndUpdate(_, _, _)

\* Variants of processPrimitiveValue with a slip: the new digest is not
\* stored; the notification carries the wrong type.
processPrimitiveValue_NotStored(child, jsonValue, currentPath) ==
  LET newPrimitiveHash == calculateHash(Stringify(jsonValue))
  IN  IF child.hash # newPrimitiveHash
      THEN Result(child, <<Event("modified", currentPath)>>, 1, FALSE,
                  <<>>, <<>>)
      ELSE Result(child, <<>>, 1, FALSE, <<>>, <<>>)

processPrimitiveValue_WrongType(child, jsonValue, currentPath) ==
  LET newPrimitiveHash == calculateHash(Stringify(jsonValue))
  IN  IF child.hash # newPrimitiveHash
      THEN Result([child EXCEPT !.hash = newPrimitiveHash],
                  <<Event("added", currentPath)>>, 1, FALSE, <<>>, <<>>)
      ELSE Result(child, <<>>, 1, FALSE, <<>>, <<>>)

processPrimitiveValue(child, jsonValue, currentPath) ==
  LET newPrimitiveHash == calculateHash(Stringify(jsonValue))
  IN  IF child.hash # newPrimitiveHash
      THEN Result([child EXCEPT !.hash = newPrimitiveHash],
                  <<Event("modified", currentPath)>>, 1, FALSE, <<>>, <<>>)
      ELSE Result(child, <<>>, 1, FALSE, <<>>, <<>>)

\* Variants of processObjectValue with a slip: a changed plain object is
\* reported itself before its children; the type tag is not tested.
processObjectValue_ReportsParent(child, jsonValue, currentPath) ==
  IF HasType(jsonValue)
  THEN LET newPrimitiveHash == calculateHash(Stringify(jsonValue))
       IN  IF child.hash # newPrimitiveHash
           THEN Result([child EXCEPT !.hash = newPrimitiveHash],
                       <<Event("modified", currentPath)>>, 1, FALSE,
                       <<>>, <<>>)
           ELSE Result(child, <<>>, 1, FALSE, <<>>, <<>>)
  ELSE LET r == findDifferencesAndUpdate(child, jsonValue, currentPath)
       IN  IF r.ev # <<>>
           THEN [r EXCEPT !.ev = <<Event("modified", currentPath)>> \o @]
           ELSE r

processObjectValue_NoTypeTest(child, jsonValue, currentPath) ==
  findDifferencesAndUpdate(child, jsonValue, currentPath)

\* hashTree[key] is a node for every key the loop visits, so the
\* placeholder of lines 195-197 is never created.
processObjectValue(child, jsonValue, currentPath) ==
  IF HasType(jsonValue)
  THEN LET newPrimitiveHash == calculateHash(Stringify(jsonValue))
       IN  IF child.hash # newPrimitiveHash
           THEN Result([child EXCEPT !.hash = newPrimitiveHash],
                       <<Event("modified", currentPath)>>, 1, FALSE,
                       <<>>, <<>>)
           ELSE Result(child, <<>>, 1, FALSE, <<>>, <<>>)
  ELSE findDifferencesAndUpdate(child, jsonValue, currentPath)

processKeyValue(child, jsonData, key, currentPath) ==
  LET jsonValue == GetProp(jsonData, key)
  IN  IF IsObject(jsonValue)
      THEN processObjectValue(child, jsonValue, currentPath)
      ELSE processPrimitiveValue(child, jsonValue, currentPath)

RECURSIVE processExistingKeys(_, _, _, _)
RECURSIVE processAddedKeys(_, _, _)

\* The loop of processExistingKeys over the children `todo` still to visit;
\* acc.node.kids holds the children already visited and kept.
\* A variant of processExistingKeys with a slip: a removed key is reported
\* but stays in the tree.
processExistingKeys_NotDeleted(todo, jsonData, path, acc) ==
  IF todo = <<>> THEN acc
  ELSE
    LET key == Head(todo).key
        currentPath == ChildPath(path, key)
    IN  IF ~IsObject(jsonData)
        THEN [acc EXCEPT !.threw = TRUE, !.node.kids = @ \o todo]
        ELSE IF ~HasProp(jsonData, key)
        THEN processExistingKeys(Tail(todo), jsonData, path,
               [acc EXCEPT !.ev = Append(@, Event("removed", currentPath)),
                           !.node.kids = Append(@, Head(todo))])
        ELSE
          LET r == processKeyValue(Head(todo).node, jsonData, key, currentPath)
              next == [acc EXCEPT !.node.kids = Append(@, K(key, r.node)),
                                  !.ev = @ \o r.ev,
                                  !.calls = @ + r.calls,
                                  !.entered = @ \o r.entered,
                                  !.pruned = @ \o r.pruned]
          IN  IF r.threw
              THEN [next EXCEPT !.threw = TRUE, !.node.kids = @ \o Tail(todo)]
              ELSE processExistingKeys(Tail(todo), jsonData, path, next)

processExistingKeys(todo, jsonData, path, acc) ==
  IF todo = <<>> THEN acc
  ELSE
    LET key == Head(todo).key
        currentPath == ChildPath(path, key)
    IN  IF ~IsObject(jsonData)
        THEN \* `key in jsonData` raises a TypeError on a primitive or null
             [acc EXCEPT !.threw = TRUE, !.node.kids = @ \o todo]
        ELSE IF ~HasProp(jsonData, key)
        THEN processExistingKeys(Tail(todo), jsonData, path,
               [acc EXCEPT !.ev = Append(@, Event("removed", currentPath))])
        ELSE
          LET r == processKeyValue(Head(todo).node, jsonData, key, currentPath)
              next == [acc EXCEPT !.node.kids = Append(@, K(key, r.node)),
                                  !.ev = @ \o r.ev,
                                  !.calls = @ + r.calls,
                                  !.entered = @ \o r.entered,
                                  !.pruned = @ \o r.pruned]
          IN  IF r.threw
              THEN [next EXCEPT !.threw = TRUE, !.node.kids = @ \o Tail(todo)]
              ELSE processExistingKeys(Tail(todo), jsonData, path, next)

\* The loop of processAddedKeys over the properties `todo` of jsonData.
\* A variant of processAddedKeys with a slip: the test `key in hashTree` is
\* missing, every key of jsonData is reported and rebuilt.
processAddedKeys_NoTest(todo, path, acc) ==
  IF todo = <<>> THEN acc
  ELSE
    LET key == Head(todo).key
        jsonValue == Head(todo).val
        currentPath == ChildPath(path, key)
    IN  IF key # HashKey
        THEN processAddedKeys(Tail(todo), path,
               [acc EXCEPT
                  !.ev = Append(@, Event("added", currentPath)),
                  !.node.kids =
                     IF key \in Keys(@)
                     THEN [i \in 1..Len(@) |->
                             IF @[i].key = key
                             THEN K(key, buildHashTree(jsonValue)) ELSE @[i]]
                     ELSE JsOrder(Append(@, K(key, buildHashTree(jsonValue)))),
                  !.calls = @ + BuildCalls(jsonValue)])
        ELSE processAddedKeys(Tail(todo), path, acc)

processAddedKeys(todo, path, acc) ==
  IF todo = <<>> THEN acc
  ELSE
    LET key == Head(todo).key
        jsonValue == Head(todo).val
        currentPath == ChildPath(path, key)
    IN  IF key \notin Keys(acc.node.kids) /\ key # HashKey
        THEN processAddedKeys(Tail(todo), path,
               [acc EXCEPT
                  !.ev = Append(@, Event("added", currentPath)),
                  !.node.kids =
                     JsOrder(Append(@, K(key, buildHashTree(jsonValue)))),
                  !.calls = @ + BuildCalls(jsonValue)])
        ELSE processAddedKeys(Tail(todo), path, acc)

\* A variant of findDifferencesAndUpdate with a slip: the pass over the
\* added keys runs before the pass over the existing keys.
findDifferencesAndUpdate_AddedFirst(hashTree, jsonData, path) ==
  IF ~Serializable(jsonData)
  THEN Result(hashTree, <<>>, 0, TRUE, <<>>, <<>>)
  ELSE
  LET newHash == calculateHash(Stringify(jsonData))
  IN  IF hashTree.hash = newHash
      THEN Result(hashTree, <<>>, 1, FALSE, <<>>, <<path>>)
      ELSE
        LET start == Result(hashTree, <<>>, 1, FALSE, <<path>>, <<>>)
            added == processAddedKeys(ForIn(jsonData), path, start)
            existing == processExistingKeys(added.node.kids, jsonData, path,
                                            [added EXCEPT !.node.kids = <<>>])
        IN  IF existing.threw THEN existing
            ELSE [existing EXCEPT
                    !.node.hash =
                       calculateHash(JoinKeyHashes(existing.node.kids, 1)),
                    !.calls = @ + 1]

\* A variant of findDifferencesAndUpdate with a slip: the new value is
\* serialized after the two passes, not before them.
findDifferencesAndUpdate_SerializesLast(hashTree, jsonData, path) ==
  LET start == Result([hashTree EXCEPT !.kids = <<>>], <<>>, 0, FALSE,
                      <<path>>, <<>>)
      existing == processExistingKeys(hashTree.kids, jsonData, path, start)
      added == processAddedKeys(ForIn(jsonData), path, existing)
  IN  IF existing.threw THEN existing
      ELSE IF ~Serializable(jsonData) THEN [added EXCEPT !.threw = TRUE]
      ELSE IF hashTree.hash = calculateHash(Stringify(jsonData))
      THEN Result(hashTree, <<>>, 1, FALSE, <<>>, <<path>>)
      ELSE [added EXCEPT
              !.node.hash = calculateHash(JoinKeyHashes(added.node.kids, 1)),
              !.calls = @ + 2]

\* JSON.stringify(jsonData) of line 280 raises for a value it cannot
\* serialize, before anything else is done.
findDifferencesAndUpdate(hashTree, jsonData, path) ==
  IF ~Serializable(jsonData)
  THEN Result(hashTree, <<>>, 0, TRUE, <<>>, <<>>)
  ELSE
  LET newHash == calculateHash(Stringify(jsonData))
  IN  IF hashTree.hash = newHash
      THEN Result(hashTree, <<>>, 1, FALSE, <<>>, <<path>>)
      ELSE
        LET start == Result([hashTree EXCEPT !.kids = <<>>], <<>>, 1, FALSE,
                            <<path>>, <<>>)
            existing == processExistingKeys(hashTree.kids, jsonData, path,
                                            start)
            added == processAddedKeys(ForIn(jsonData), path, existing)
        IN  IF existing.threw THEN existing
            ELSE [added EXCEPT
                    !.node.hash = calculateHash(JoinKeyHashes(added.node.kids, 1)),
                    !.calls = @ + 1]

(***************************************************************************)
(* The snapshots the caller passes to initialize and detectChanges.        *)
(***************************************************************************)
Nums == {Num(1), Num(2)}

\* Objects with a truthy type property: opaque leaves.
Opaque(n) == Obj(<<P(TypeKey, Str("X")), P("payload", n)>>)
Opaques == {Opaque(n) : n \in Nums}

Leaves == Nums \cup Opaques

\* Plain objects over the keys a and b, in both creation orders.
Flat(S) ==
  {Obj(<<>>)}
    \cup {Obj(<<P(key, x)>>) : key \in {"a", "b"}, x \in S}
    \cup {Obj(<<P("a", x), P("b", y)>>) : x \in S, y \in S}
    \cup {Obj(<<P("b", y), P("a", x)>>) : x \in S, y \in S}

RECURSIVE Tuples(_, _)
Tuples(S, n) ==
  IF n = 0 THEN {<<>>}
  ELSE {Append(t, x) : t \in Tuples(S, n - 1), x \in S}

Arrays(S) == UNION {{Arr(t) : t \in Tuples(S, n)} : n \in 0..MaxLen}

\* One-key plain objects, the elements and branches of nested snapshots.
A(x) == Obj(<<P("a", x)>>)
B(x) == Obj(<<P("b", x)>>)

\* An array and the array with its two elements swapped.
Swaps(x, y) == {Arr(<<x, y>>), Arr(<<y, x>>)}

\* Plain objects with an opaque leaf or a third key.
WithOpaque ==
  {A(x) : x \in Opaques}
    \cup {Obj(<<P("a", Num(1)), P("b", Opaque(Num(1)))>>)}
    \cup {Obj(<<P("a", n), P("c", Num(1))>>) : n \in Nums}

\* Arrays of primitives, of plain objects, of opaque leaves, and mixed.
ArraySnapshots ==
  Arrays({Num(1)}) \cup {Arr(<<Num(2)>>)} \cup Swaps(Num(1), Num(2))
    \cup Swaps(A(Num(1)), A(Num(2))) \cup Swaps(A(Num(1)), B(Num(1)))
    \cup Swaps(Opaque(Num(1)), Opaque(Num(2)))
    \cup Swaps(Opaque(Num(1)), Num(1)) \cup Swaps(A(Num(1)), Num(1))

\* a: {a: ... {a: n}} with d objects around n.
RECURSIVE Chain(_, _)
Chain(n, d) == IF d = 0 THEN n ELSE A(Chain(n, d - 1))

\* Plain objects with structural children.
Nested ==
  {A(x) : x \in {A(Num(1)), A(Num(2)), B(Num(1)), Obj(<<>>),
                 Obj(<<P("a", Num(1)), P("b", Num(1))>>),
                 Arr(<<Num(1)>>)} \cup Swaps(Num(1), Num(2))}
    \cup {Obj(<<P("a", Num(1)), P("b", x)>>) :
            x \in {A(Num(1)), A(Num(2)), Arr(<<Num(1)>>)}}
    \cup {Obj(<<P("a", A(n)), P("b", Num(1))>>) : n \in Nums}
    \cup {Chain(n, d) : n \in Nums, d \in 3..MaxDepth}

Snapshots ==
  Leaves \cup Flat(Nums) \cup WithOpaque \cup ArraySnapshots \cup Nested

(***************************************************************************)
(* Serializer (Serializer.ts).  A JSON text is the sequence of its tokens; *)
(* a primitive is one token.  The objects a configuration script creates   *)
(* (Secret, Env, RegExp, Buffer) and the undefined value are values of     *)
(* their own kinds.  AES-256-CBC is idealised: a ciphertext names the key, *)
(* the IV and the plaintext, and deciphering with another key or IV fails. *)
(***************************************************************************)
MaxKey == 2      \* crypto keys 1..MaxKey
MaxIv == 2       \* initialisation vectors 1..MaxIv

CryptoKeys == 1..MaxKey
Ivs == 1..MaxIv

Undefined == Prim("undefined")

\* The objects of a configuration script (Secret is defined below, with
\* the text it keeps).
Env(name, default) == [k |-> "Env", name |-> name, default |-> default]
RegExpOf(source, flags, label) ==
  [k |-> "RegExp", source |-> source, flags |-> flags, label |-> label]
BufferOf(hex) == [k |-> "Buffer", hex |-> hex]

\* A hex string: a primitive that stands for the bytes it encodes.
Bytes(key, iv, text) == [key |-> key, iv |-> iv, text |-> text]
Hex(bytes) == [k |-> "prim", s |-> "hex", e |-> <<bytes>>]

\* crypto.randomBytes(16) for the IV, createCipheriv(...).update/final.
randomBytes(iv) == Bytes(0, iv, <<>>)
createCipheriv(cryptokey, iv, text) == Bytes(cryptokey, iv, text)

\* createDecipheriv(...).update/final: the plaintext, or a failure.
createDecipheriv(cryptokey, iv, bytes) ==
  IF bytes.key = cryptokey /\ bytes.iv = iv.iv
  THEN [raised |-> FALSE, val |-> bytes.text]
  ELSE [raised |-> TRUE, val |-> <<>>]

\* Tokens of a JSON text.
Punct(c) == [t |-> "punct", s |-> c, e |-> <<>>]
Name(key) == [t |-> "name", s |-> key, e |-> <<>>]
Lit(v) == [t |-> "lit", s |-> v.s, e |-> v.e]

IsHost(v) == v.k \in {"Secret", "Env", "RegExp", "Buffer"}

\* The toJSON methods serializeObject installs (lines 203-229); the Secret
\* draws its IV when it is stringified.
toJSON(v, cryptokey, iv) ==
  IF v.k = "Secret" THEN
    Obj(<<P(TypeKey, Str("Secret")), P("iv", Hex(randomBytes(iv))),
          P("hex", Hex(createCipheriv(cryptokey, iv, v.text)))>>)
  ELSE IF v.k = "Env" THEN
    Obj(<<P(TypeKey, Str("Env")), P("name", v.name),
          P("default", v.default)>>)
  ELSE IF v.k = "RegExp" THEN
    Obj(<<P(TypeKey, Str("RegExp")), P("source", v.source),
          P("flags", v.flags),
          P("label", IF Truthy(v.label) THEN v.label ELSE Str(""))>>)
  ELSE Obj(<<P(TypeKey, Str("Buffer")), P("hex", v.hex)>>)

\* JSON.stringify(value): toJSON is applied first, a property whose value is
\* undefined is left out, an undefined array element is written as null.
RECURSIVE JSON_stringify(_, _, _)
RECURSIVE StringifyEntries(_, _, _, _, _, _)
StringifyEntries(entries, i, isArray, first, cryptokey, iv) ==
  IF i > Len(entries) THEN <<>>
  ELSE
    LET val == entries[i].val
        skip == ~isArray /\ val = Undefined
        text == IF val = Undefined THEN <<Lit(Null)>>
                ELSE JSON_stringify(val, cryptokey, iv)
    IN  IF skip
        THEN StringifyEntries(entries, i + 1, isArray, first, cryptokey, iv)
        ELSE (IF first THEN <<>> ELSE <<Punct(",")>>)
               \o (IF isArray THEN <<>>
                   ELSE <<Name(entries[i].key), Punct(":")>>)
               \o text
               \o StringifyEntries(entries, i + 1, isArray, FALSE,
                                   cryptokey, iv)

JSON_stringify(value, cryptokey, iv) ==
  IF IsHost(value)
  THEN JSON_stringify(toJSON(value, cryptokey, iv), cryptokey, iv)
  ELSE IF value.k = "prim" THEN <<Lit(value)>>
  ELSE IF value.k = "arr"
  THEN <<Punct("[")>>
         \o StringifyEntries(value.e, 1, TRUE, TRUE, cryptokey, iv)
         \o <<Punct("]")>>
  ELSE <<Punct("{")>>
         \o StringifyEntries(value.e, 1, FALSE, TRUE, cryptokey, iv)
         \o <<Punct("}")>>

\* new Secret(json): this.text = JSON.stringify(json), for a json without
\* objects of the script's classes.  The field json is kept for reference.
Secret(json) ==
  [k |-> "Secret", json |-> json, text |-> JSON_stringify(json, 0, 0)]

\* JSON.parse(text) without a reviver, for the texts JSON.stringify writes:
\* the value read and the tokens after it.
RECURSIVE ParseValue(_)
RECURSIVE ParseElements(_, _)
RECURSIVE ParseMembers(_, _)
ParseValue(ts) ==
  IF Head(ts).t = "lit"
  THEN [val |-> [k |-> "prim", s |-> Head(ts).s, e |-> Head(ts).e],
        rest |-> Tail(ts)]
  ELSE IF Head(ts) = Punct("[") THEN ParseElements(Tail(ts), <<>>)
  ELSE ParseMembers(Tail(ts), <<>>)

ParseElements(ts, items) ==
  IF Head(ts) = Punct("]") THEN [val |-> Arr(items), rest |-> Tail(ts)]
  ELSE
    LET from == IF Head(ts) = Punct(",") THEN Tail(ts) ELSE ts
        r == ParseValue(from)
    IN  ParseElements(r.rest, Append(items, r.val))

ParseMembers(ts, entries) ==
  IF Head(ts) = Punct("}") THEN [val |-> Obj(entries), rest |-> Tail(ts)]
  ELSE
    LET from == IF Head(ts) = Punct(",") THEN Tail(ts) ELSE ts
        r == ParseValue(Tail(Tail(from)))
    IN  ParseMembers(r.rest, Append(entries, P(Head(from).s, r.val)))

JSON_parse(text) == ParseValue(text).val

\* obj.key of an object read from JSON.
Field(obj, key) == IF HasProp(obj, key) THEN GetProp(obj, key) ELSE Undefined

Returned(val) == [raised |-> FALSE, val |-> val]
Raised == [raised |-> TRUE, val |-> Undefined]

\* A variant of deserializeSecret with a slip: the deciphered text is
\* returned unparsed.
deserializeSecret_Unparsed(value, cryptokey) ==
  LET iv == Field(value, "iv")
      hex == Field(value, "hex")
  IN  IF iv.s # "hex" \/ hex.s # "hex" THEN Raised
      ELSE
        LET plain == createDecipheriv(cryptokey, iv.e[1], hex.e[1])
        IN  IF plain.raised THEN Raised
            ELSE Returned([k |-> "prim", s |-> "text", e |-> plain.val])

\* Buffer.from(undefined, 'hex') raises, and so does a ciphertext that the
\* key and IV do not fit.
deserializeSecret(value, cryptokey) ==
  LET iv == Field(value, "iv")
      hex == Field(value, "hex")
  IN  IF iv.s # "hex" \/ hex.s # "hex" THEN Raised
      ELSE
        LET plain == createDecipheriv(cryptokey, iv.e[1], hex.e[1])
        IN  IF plain.raised THEN Raised
            ELSE Returned(JSON_parse(plain.val))

\* process.env[name]: the variable's text as a string, or undefined.
ProcessEnv(environment, name) ==
  IF name \in DOMAIN environment /\ environment[name] # <<>>
  THEN Str(environment[name][1])
  ELSE Undefined

\* process.env[obj.name] || obj.default
deserializeEnv(value, environment) ==
  LET variable == ProcessEnv(environment, Field(value, "name"))
  IN  IF Truthy(variable) THEN variable ELSE Field(value, "default")

\* new RegExp(obj.source || '', obj.flags || '') with its label.
deserializeRegExp(value) ==
  LET source == Field(value, "source")
      flags == Field(value, "flags")
      label == Field(value, "label")
  IN  RegExpOf(IF Truthy(source) THEN source ELSE Str(""),
               IF Truthy(flags) THEN flags ELSE Str(""),
               IF Truthy(label) THEN label ELSE Undefined)

\* Buffer.from(obj.hex, 'hex'); undefined raises.
deserializeBuffer(value) ==
  IF Field(value, "hex") = Undefined THEN Raised
  ELSE Returned(BufferOf(Field(value, "hex")))

reviver(value, cryptokey, environment) ==
  IF ~IsObject(value) THEN Returned(value)
  ELSE
    LET type == Field(value, TypeKey)
    IN  IF type = Str("RegExp") THEN Returned(deserializeRegExp(value))
        ELSE IF type = Str("Buffer") THEN deserializeBuffer(value)
        ELSE IF type = Str("Secret") THEN deserializeSecret(value, cryptokey)
        ELSE IF type = Str("Env")
        THEN Returned(deserializeEnv(value, environment))
        ELSE Returned(value)

\* JSON.parse(json, reviver): the reviver is applied to the properties of a
\* value, in order, before the value itself; a property revived to
\* undefined is deleted.
RECURSIVE Revive(_, _, _)
RECURSIVE ReviveEntries(_, _, _, _, _)
ReviveEntries(entries, i, acc, cryptokey, environment) ==
  IF i > Len(entries) THEN Returned(acc)
  ELSE
    LET r == Revive(entries[i].val, cryptokey, environment)
    IN  IF r.raised THEN Raised
        ELSE ReviveEntries(entries, i + 1,
                           Append(acc, P(entries[i].key, r.val)),
                           cryptokey, environment)

Revive(value, cryptokey, environment) ==
  IF ~IsObject(value) THEN reviver(value, cryptokey, environment)
  ELSE
    LET r == ReviveEntries(value.e, 1, <<>>, cryptokey, environment)
        kept == IF value.k = "arr" THEN r.val
                ELSE SelectSeq(r.val, LAMBDA x : x.val # Undefined)
    IN  IF r.raised THEN Raised
        ELSE reviver([value EXCEPT !.e = kept], cryptokey, environment)

\* deserializeObject(json): the value, or an Error.
deserializeObject(json, cryptokey, environment) ==
  Revive(JSON_parse(json), cryptokey, environment)

(***************************************************************************)
(* The configurations a script exports (module.exports).                   *)
(***************************************************************************)
EnvName == Str("X")
EnvTexts == {"", "v"}

\* Values a Secret wraps: JSON values, one of them shaped like an Env.
SecretJsons ==
  {Num(1), Null, Str("s"), Obj(<<P("a", Num(1))>>),
   Arr(<<Num(1), Num(2)>>),
   Obj(<<P(TypeKey, Str("Env")), P("name", EnvName), P("default", Str("d"))>>)}

Envs == {Env(EnvName, default) : default \in {Str("d"), Num(0), Undefined}}
Secrets == {Secret(json) : json \in SecretJsons}

\* Each object at the top, under a key next to a plain value, and in an
\* array; a RegExp, a Buffer and a plain configuration.
Configs ==
  LET hosts == Envs \cup Secrets
  IN  hosts
        \cup {Obj(<<P("a", h), P("b", Num(1))>>) : h \in hosts}
        \cup {Arr(<<h>>) : h \in Envs \cup {Secret(Num(1))}}
        \cup {Obj(<<P("a", RegExpOf(Str("r"), Str("i"), Undefined))>>),
              Obj(<<P("a", BufferOf(Str("7f")))>>),
              Obj(<<P("a", Num(1))>>)}

(***************************************************************************)
(* The engine and its caller.  The caller (the watch callback of           *)
(* json_diff_watcher.js) makes one call at a time and returns to the event *)
(* loop; the variables that record the last call are cleared then.         *)
(***************************************************************************)
VARIABLES
  previousHashTree,  \* the root node the engine owns
  snapshot,          \* <<v>>: the tree was last brought up to date with v
  op,                \* "idle", or the call that has just returned:
                     \* "initialize", "detectChanges", "raised"
  emitted,           \* the 'difference' events of that call, in order
  stats,             \* hash calls and digest checks of that call
  prevSnapshot,      \* snapshot before that call, for a detectChanges
  prevTree,          \* previousHashTree before that call, likewise
  argument,          \* <<v>>: the argument of that call
  afterInitialize,   \* "no", or an initialize has returned and no
                     \* detectChanges was called since, the call recorded
                     \* in op not counted: "fresh" if that initialize was
                     \* the engine's first call, "used" if it replaced a
                     \* tree that earlier calls had left
  environment,       \* process.env: <<text>> for a variable that is set
  cryptokey,         \* the key of the Serializer in use
  settingsdata,      \* <<v>>: the configuration last written
  contents,          \* <<text>>: the JSON text of the configuration file
  sealedKey,         \* the Serializer's key when that file was written
  obj                \* <<r>>: what deserializeObject(contents) gave

engineVars ==
  <<previousHashTree, snapshot, op, emitted, stats, prevSnapshot, prevTree,
    argument, afterInitialize>>

serializerVars ==
  <<environment, cryptokey, settingsdata, contents, sealedKey, obj>>

vars == <<engineVars, serializerVars>>

EmptyTree == Node("", <<>>)
NoStats == [calls |-> 0, entered |-> <<>>, pruned |-> <<>>]

NoCall ==
  /\ op = "idle"
  /\ emitted = <<>>
  /\ stats = NoStats
  /\ prevSnapshot = <<>>
  /\ prevTree = EmptyTree
  /\ argument = <<>>

\* new Serializer(cryptokey) in an environment without the variable.
SerializerInit ==
  /\ environment = [name \in {EnvName} |-> <<>>]
  /\ cryptokey = 1
  /\ settingsdata = <<>>
  /\ contents = <<>>
  /\ sealedKey = 0
  /\ obj = <<>>

\* constructor
Init ==
  /\ previousHashTree = EmptyTree
  /\ snapshot = <<>>
  /\ afterInitialize = "no"
  /\ NoCall
  /\ SerializerInit

\* A variant of initialize with a slip: the tree the engine held is brought
\* up to date silently instead of being replaced.
initialize_KeepsTree(jsonData) ==
  /\ op = "idle"
  /\ LET r == findDifferencesAndUpdate(previousHashTree, jsonData, "")
     IN  previousHashTree' =
           IF r.threw THEN buildHashTree(jsonData) ELSE r.node
  /\ emitted' = <<>>
  /\ op' = "initialize"
  /\ stats' = [NoStats EXCEPT !.calls = BuildCalls(jsonData)]
  /\ snapshot' = <<jsonData>>
  /\ prevSnapshot' = <<>>
  /\ prevTree' = EmptyTree
  /\ argument' = <<jsonData>>
  /\ afterInitialize' =
       IF previousHashTree = EmptyTree THEN "fresh" ELSE "used"
  /\ UNCHANGED serializerVars

initialize(jsonData) ==
  /\ op = "idle"
  /\ previousHashTree' = buildHashTree(jsonData)
  /\ emitted' = <<>>
  /\ op' = "initialize"
  /\ stats' = [NoStats EXCEPT !.calls = BuildCalls(jsonData)]
  /\ snapshot' = <<jsonData>>
  /\ prevSnapshot' = <<>>
  /\ prevTree' = EmptyTree
  /\ argument' = <<jsonData>>
  /\ afterInitialize' =
       IF previousHashTree = EmptyTree THEN "fresh" ELSE "used"
  /\ UNCHANGED serializerVars

detectChanges(jsonData) ==
  /\ op = "idle"
  /\ LET r == findDifferencesAndUpdate(previousHashTree, jsonData, "")
     IN  /\ previousHashTree' = r.node
         /\ emitted' = r.ev
         /\ op' = IF r.threw THEN "raised" ELSE "detectChanges"
         /\ stats' = [calls |-> r.calls, entered |-> r.entered,
                      pruned |-> r.pruned]
         /\ snapshot' = IF r.threw THEN snapshot ELSE <<jsonData>>
         /\ prevSnapshot' = snapshot
         /\ prevTree' = previousHashTree
         /\ argument' = <<jsonData>>
         /\ UNCHANGED afterInitialize
  /\ UNCHANGED serializerVars

\* The watch callback returns.
watchFile ==
  /\ op # "idle"
  /\ op' = "idle"
  /\ emitted' = <<>>
  /\ stats' = NoStats
  /\ prevSnapshot' = <<>>
  /\ prevTree' = EmptyTree
  /\ argument' = <<>>
  /\ afterInitialize' = IF op = "initialize" THEN afterInitialize ELSE "no"
  /\ UNCHANGED <<previousHashTree, snapshot>>
  /\ UNCHANGED serializerVars

Next ==
  \/ \E v \in Snapshots : initialize(v)
  \/ \E v \in Snapshots : detectChanges(v)
  \/ watchFile

Spec == Init /\ [][Next]_vars

(***************************************************************************)
(* The same engine and caller, fed snapshots whose property names meet the *)
(* names the engine or JavaScript gives a meaning: '__hash', 'length',     *)
(* array-index names, the empty name.                                      *)
(***************************************************************************)
KeySnapshots ==
  {Obj(<<>>), Arr(<<>>), Arr(<<Num(1)>>), A(Num(1)),
   A(Obj(<<>>)), A(Arr(<<>>))}
    \cup {Obj(<<P(HashKey, n)>>) : n \in Nums}
    \cup {Obj(<<P("a", Num(1)), P(HashKey, n)>>) : n \in Nums}
    \cup {A(Obj(<<P(HashKey, Num(1))>>))}
    \cup {Obj(<<P("length", n)>>) : n \in {Num(0), Num(1)}}
    \cup {A(Obj(<<P("length", Num(0))>>))}
    \cup {Obj(<<P("10", Num(1)), P("2", Num(1))>>),
          Obj(<<P("", Num(1))>>), Obj(<<P("", A(Num(1)))>>),
          Obj(<<P("", A(Num(2)))>>),
          Obj(<<P("", A(Num(2))), P("a", Num(1))>>),
          Obj(<<P("", A(Num(1))), P("a", Num(2))>>)}

KeysNext ==
  \/ \E v \in KeySnapshots : initialize(v)
  \/ \E v \in KeySnapshots : detectChanges(v)
  \/ watchFile

KeysSpec == Init /\ [][KeysNext]_vars

(***************************************************************************)
(* The same engine and caller, fed objects whose 'type' property is truthy *)
(* or falsy, at the root, under a key and in an array.                     *)
(***************************************************************************)
TypedSnapshots ==
  {Num(1), Null, Obj(<<>>), A(Num(1)), Opaque(Num(1)), A(Opaque(Num(1))),
   Arr(<<Opaque(Num(1)), Num(1)>>), A(Obj(<<P(TypeKey, Null)>>)),
   Arr(<<Obj(<<P(TypeKey, Str(""))>>)>>),
   Obj(<<P("payload", Num(1)), P(TypeKey, Str("X"))>>),
   A(Obj(<<P("payload", Num(1)), P(TypeKey, Str("X"))>>)),
   Obj(<<P("a", Num(1)), P(TypeKey, Num(0))>>)}
    \cup {Obj(<<P(TypeKey, t), P("a", Num(1))>>) :
            t \in {Str(""), Num(0), Prim("false"), Str("X")}}

TypedNext ==
  \/ \E v \in TypedSnapshots : initialize(v)
  \/ \E v \in TypedSnapshots : detectChanges(v)
  \/ watchFile

TypedSpec == Init /\ [][TypedNext]_vars

(***************************************************************************)
(* The same engine, whose caller also passes detectChanges values with a   *)
(* self-reference, which JSON.stringify cannot serialize.                  *)
(***************************************************************************)
CircularSnapshots ==
  {Num(1), Obj(<<>>), A(Num(1)), A(Num(2)), A(A(Num(1))), A(Opaque(Num(1))),
   Obj(<<P("a", Num(1)), P("b", Num(1))>>), Arr(<<Num(1)>>)}
    \cup {Circular(<<>>), Circular(<<P("a", Num(1))>>),
          Circular(<<P("c", Num(1))>>), A(Circular(<<>>)),
          Arr(<<Circular(<<>>)>>)}

CircularNext ==
  \/ \E v \in {x \in CircularSnapshots : Serializable(x)} : initialize(v)
  \/ \E v \in CircularSnapshots : detectChanges(v)
  \/ watchFile

CircularSpec == Init /\ [][CircularNext]_vars

(***************************************************************************)
(* The Serializer and its caller (the command line tool): the environment  *)
(* changes, a Serializer is made for a key, a configuration is serialized  *)
(* and written as JSON, the file is read and deserialized.                 *)
(***************************************************************************)
setEnv(text) ==
  /\ environment' = [environment EXCEPT ![EnvName] = <<text>>]
  /\ obj' = <<>>
  /\ UNCHANGED <<cryptokey, settingsdata, contents, sealedKey>>
  /\ UNCHANGED engineVars

deleteEnv ==
  /\ environment' = [environment EXCEPT ![EnvName] = <<>>]
  /\ obj' = <<>>
  /\ UNCHANGED <<cryptokey, settingsdata, contents, sealedKey>>
  /\ UNCHANGED engineVars

newSerializer(key) ==
  /\ cryptokey' = key
  /\ obj' = <<>>
  /\ UNCHANGED <<environment, settingsdata, contents, sealedKey>>
  /\ UNCHANGED engineVars

\* serializeObject(config), then writeConfigSync: JSON.stringify.
writeConfigSync(data, iv) ==
  /\ settingsdata' = <<data>>
  /\ contents' = <<JSON_stringify(data, cryptokey, iv)>>
  /\ sealedKey' = cryptokey
  /\ obj' = <<>>
  /\ UNCHANGED <<environment, cryptokey>>
  /\ UNCHANGED engineVars

\* readConfigSync, then deserializeObject(contents).
readConfigSync ==
  /\ contents # <<>>
  /\ obj' = <<deserializeObject(contents[1], cryptokey, environment)>>
  /\ UNCHANGED <<environment, cryptokey, settingsdata, contents, sealedKey>>
  /\ UNCHANGED engineVars

SerializerNext ==
  \/ \E text \in EnvTexts : setEnv(text)
  \/ deleteEnv
  \/ \E key \in CryptoKeys : newSerializer(key)
  \/ \E data \in Configs, iv \in Ivs : writeConfigSync(data, iv)
  \/ readConfigSync

SerializerSpec == Init /\ [][SerializerNext]_vars

TypeOK == op \in {"idle", "initialize", "detectChanges", "raised"}

(***************************************************************************)
(* Vocabulary of the properties.                                           *)
(***************************************************************************)
Range(seq) == {seq[i] : i \in 1..Len(seq)}

\* A plain object: an object that is no array and has no truthy type.
IsPlain(v) == v.k = "obj" /\ ~HasType(v)

\* A structural value: the engine gives it a node with children.
IsStructural(v) == v.k = "arr" \/ IsPlain(v)

\* The values of a snapshot with their paths; opaque objects are leaves.
RECURSIVE Subvalues(_, _)
Subvalues(v, path) ==
  {[path |-> path, val |-> v]}
    \cup (IF IsStructural(v)
          THEN UNION {Subvalues(v.e[i].val, ChildPath(path, v.e[i].key)) :
                        i \in 1..Len(v.e)}
          ELSE {})

\* detectChanges(w) has returned and the tree was up to date with v before.
Updated(v, w) ==
  /\ op = "detectChanges"
  /\ prevSnapshot = <<v>>
  /\ snapshot = <<w>>

\* detectChanges(v) has returned and the tree was up to date with v before.
SameAgain == op = "detectChanges" /\ prevSnapshot = snapshot

(***************************************************************************)
(* C1.  No-op notifications: when the tree was last brought up to date     *)
(* with v, by initialize(v) or a completed detectChanges(v), a following   *)
(* detectChanges(v) emits no 'difference' notification.                    *)
(***************************************************************************)
C1_NoOpNotifications == SameAgain => emitted = <<>>

\* The case after a history of updates: the tree differs from a fresh build.
C1_Witness ==
  /\ SameAgain
  /\ IsStructural(snapshot[1])
  /\ prevTree # buildHashTree(snapshot[1])
  /\ \E x \in Subvalues(snapshot[1], "") : x.path # "" /\ IsStructural(x.val)

(***************************************************************************)
(* C2.  No-op digest: when the tree was produced from v, detectChanges(v)  *)
(* leaves the root digest equal to the digest the root had before the      *)
(* call, also for values that contain arrays.                              *)
(***************************************************************************)
C2_NoOpDigest == SameAgain => previousHashTree.hash = prevTree.hash

(***************************************************************************)
(* C3.  Pruning: during detectChanges, at every object or array subtree    *)
(* whose value is identical to its value in the previous snapshot the      *)
(* digest check succeeds and the engine does not enter the node; for an    *)
(* unchanged root the call costs one hash computation.                     *)
(***************************************************************************)
C3_Pruning ==
  op = "detectChanges" /\ prevSnapshot # <<>> =>
    /\ \A x \in Subvalues(snapshot[1], "") :
         IsStructural(x.val) /\ x \in Subvalues(prevSnapshot[1], "")
           => x.path \notin Range(stats.entered)
    /\ (SameAgain /\ IsStructural(snapshot[1]) => stats.calls = 1)

(***************************************************************************)
(* C4.  Addition: when the previous snapshot is a plain object v and the   *)
(* new snapshot is v plus one key k with any value, detectChanges emits    *)
(* exactly one notification, added at path k, and none below k.            *)
(***************************************************************************)
\* w is the plain object v plus the key k.
PlusKey(v, w, k) ==
  /\ IsPlain(v) /\ IsPlain(w)
  /\ k \notin Keys(v.e)
  /\ Keys(w.e) = Keys(v.e) \cup {k}
  /\ \A key \in Keys(v.e) : GetProp(w, key) = GetProp(v, key)

C4_Addition ==
  \A k \in Range(KeyOrder) :
    /\ op = "detectChanges"
    /\ prevSnapshot # <<>>
    /\ PlusKey(prevSnapshot[1], snapshot[1], k)
    => emitted = <<Event("added", k)>>

\* A key with a nested value is added next to an existing key.
C4_Witness ==
  /\ op = "detectChanges"
  /\ prevSnapshot # <<>>
  /\ \E k \in Range(KeyOrder) :
       /\ PlusKey(prevSnapshot[1], snapshot[1], k)
       /\ IsPlain(GetProp(snapshot[1], k))
       /\ GetProp(snapshot[1], k).e # <<>>
       /\ prevSnapshot[1].e # <<>>

(***************************************************************************)
(* C5.  Removal: when the previous snapshot is a plain object v and the    *)
(* new snapshot is v minus one key k, whatever value k had, detectChanges  *)
(* emits exactly one notification, removed at path k, and none below k.    *)
(***************************************************************************)
C5_Removal ==
  \A k \in Range(KeyOrder) :
    /\ op = "detectChanges"
    /\ prevSnapshot # <<>>
    /\ PlusKey(snapshot[1], prevSnapshot[1], k)
    => emitted = <<Event("removed", k)>>

\* A key with a nested value is removed and another key stays.
C5_Witness ==
  /\ op = "detectChanges"
  /\ prevSnapshot # <<>>
  /\ \E k \in Range(KeyOrder) :
       /\ PlusKey(snapshot[1], prevSnapshot[1], k)
       /\ IsStructural(GetProp(prevSnapshot[1], k))
       /\ GetProp(prevSnapshot[1], k).e # <<>>
       /\ snapshot[1].e # <<>>

(***************************************************************************)
(* C6.  Modification: when the previous and the new snapshot are plain     *)
(* objects with the same keys that differ only in the primitive value of   *)
(* one top-level key k, detectChanges emits exactly one notification,      *)
(* modified at path k.                                                     *)
(***************************************************************************)
OneKeyDiffers(v, w, k) ==
  /\ IsPlain(v) /\ IsPlain(w)
  /\ Keys(w.e) = Keys(v.e)
  /\ k \in Keys(v.e)
  /\ GetProp(v, k) # GetProp(w, k)
  /\ \A key \in Keys(v.e) \ {k} : GetProp(w, key) = GetProp(v, key)

C6_Modification ==
  \A k \in Range(KeyOrder) :
    /\ op = "detectChanges"
    /\ prevSnapshot # <<>>
    /\ OneKeyDiffers(prevSnapshot[1], snapshot[1], k)
    /\ ~IsObject(GetProp(prevSnapshot[1], k))
    /\ ~IsObject(GetProp(snapshot[1], k))
    => emitted = <<Event("modified", k)>>

\* One of two primitive keys changes and the properties are listed in the
\* other order.
C6_Witness ==
  /\ op = "detectChanges"
  /\ prevSnapshot # <<>>
  /\ \E k \in Range(KeyOrder) :
       /\ OneKeyDiffers(prevSnapshot[1], snapshot[1], k)
       /\ ~IsObject(GetProp(prevSnapshot[1], k))
       /\ ~IsObject(GetProp(snapshot[1], k))
       /\ Len(snapshot[1].e) = 2
       /\ snapshot[1].e[1].key # prevSnapshot[1].e[1].key

(***************************************************************************)
(* C7.  Nested modification: when exactly one primitive leaf nested inside *)
(* plain objects changes value, detectChanges emits exactly one            *)
(* notification, modified at the dot-joined key path of the leaf, and none *)
(* at an ancestor path.                                                    *)
(***************************************************************************)
\* v and w are equal, or primitives, or plain objects with the same keys
\* whose values are alike.
RECURSIVE PlainAlike(_, _)
PlainAlike(v, w) ==
  \/ v = w
  \/ ~IsObject(v) /\ ~IsObject(w)
  \/ /\ IsPlain(v) /\ IsPlain(w)
     /\ Keys(v.e) = Keys(w.e)
     /\ \A key \in Keys(v.e) : PlainAlike(GetProp(v, key), GetProp(w, key))

\* The paths of the primitive leaves at which alike v and w differ.
RECURSIVE ChangedLeaves(_, _, _)
ChangedLeaves(v, w, path) ==
  IF v = w THEN {}
  ELSE IF ~IsObject(v) THEN {path}
  ELSE UNION {ChangedLeaves(GetProp(v, key), GetProp(w, key),
                            ChildPath(path, key)) : key \in Keys(v.e)}

NestedLeafChange(v, w, p) ==
  /\ IsPlain(v) /\ IsPlain(w)
  /\ PlainAlike(v, w)
  /\ ChangedLeaves(v, w, "") = {p}
  /\ p \notin Keys(v.e)

C7_NestedModification ==
  op = "detectChanges" /\ prevSnapshot # <<>> =>
    \A p \in ChangedLeaves(prevSnapshot[1], snapshot[1], "") :
      NestedLeafChange(prevSnapshot[1], snapshot[1], p)
        => emitted = <<Event("modified", p)>>

\* A leaf three levels down changes.
C7_Witness ==
  /\ op = "detectChanges"
  /\ prevSnapshot # <<>>
  /\ NestedLeafChange(prevSnapshot[1], snapshot[1], "a.a.a")

(***************************************************************************)
(* C8.  Opaque-leaf atomicity: when the value at a path is an object with  *)
(* a truthy type in both snapshots and its content differs, detectChanges  *)
(* emits exactly one notification at that path, of type modified, and none *)
(* for a path inside the object; also when the object is the root.         *)
(***************************************************************************)
\* The paths strictly inside v.
RECURSIVE InnerPaths(_, _)
InnerPaths(v, path) ==
  UNION {{ChildPath(path, v.e[i].key)}
           \cup InnerPaths(v.e[i].val, ChildPath(path, v.e[i].key)) :
         i \in 1..Len(v.e)}

\* The opaque objects of v and w that sit at the same path and differ.
OpaqueChanges(v, w) ==
  {x \in Subvalues(v, "") \X Subvalues(w, "") :
     /\ x[1].path = x[2].path
     /\ HasType(x[1].val) /\ HasType(x[2].val)
     /\ x[1].val # x[2].val}

Atomic(x) ==
  /\ \E i \in 1..Len(emitted) :
       /\ emitted[i] = Event("modified", x[1].path)
       /\ \A j \in 1..Len(emitted) : emitted[j].path = x[1].path => j = i
  /\ \A e \in Range(emitted) :
       e.path \notin InnerPaths(x[1].val, x[1].path)
                       \cup InnerPaths(x[2].val, x[2].path)

C8_OpaqueAtomicity ==
  op = "detectChanges" /\ prevSnapshot # <<>> =>
    \A x \in OpaqueChanges(prevSnapshot[1], snapshot[1]) : Atomic(x)

\* The same, for opaque objects below the root only.
C8_BelowRoot ==
  op = "detectChanges" /\ prevSnapshot # <<>> =>
    \A x \in OpaqueChanges(prevSnapshot[1], snapshot[1]) :
      x[1].path # "" => Atomic(x)

(***************************************************************************)
(* C9.  Notification order within one update: at each node all removed     *)
(* notifications for the node's keys come first, then the modified ones    *)
(* and those of recursed children, then all added ones; a removed          *)
(* notification never follows a modified one for another key of the node.  *)
(***************************************************************************)
\* The paths below a node, each with its parent path and all its ancestor
\* paths, for the tree before the call and for the new snapshot.
RECURSIVE TreePaths(_, _, _)
TreePaths(node, path, ancs) ==
  UNION {{[path |-> ChildPath(path, node.kids[i].key), parent |-> path,
           ancs |-> ancs \cup {path}]}
           \cup TreePaths(node.kids[i].node,
                          ChildPath(path, node.kids[i].key),
                          ancs \cup {path}) :
         i \in 1..Len(node.kids)}

RECURSIVE ValuePaths(_, _, _)
ValuePaths(v, path, ancs) ==
  UNION {{[path |-> ChildPath(path, v.e[i].key), parent |-> path,
           ancs |-> ancs \cup {path}]}
           \cup ValuePaths(v.e[i].val, ChildPath(path, v.e[i].key),
                           ancs \cup {path}) :
         i \in 1..Len(v.e)}

PathTable ==
  TreePaths(prevTree, "", {}) \cup ValuePaths(snapshot[1], "", {})

\* The event e is about a key of the node at path n.
AtNode(table, n, e) == \E r \in table : r.path = e.path /\ r.parent = n

\* The event e is about a key of the node at path n or about a path below
\* one of its children.
BelowNode(table, n, e) == \E r \in table : r.path = e.path /\ n \in r.ancs

\* The child of the node at n that e is about or lies below.
ChildOf(table, n, e) ==
  CHOOSE c \in {r.path : r \in {q \in table : q.parent = n}} :
    \/ c = e.path
    \/ \E r \in table : r.path = e.path /\ c \in r.ancs

\* The node of the tree before the call at path n.
RECURSIVE NodeAt(_, _, _)
NodeAt(node, path, n) ==
  IF path = n THEN {node}
  ELSE UNION {NodeAt(node.kids[i].node, ChildPath(path, node.kids[i].key), n) :
                i \in 1..Len(node.kids)}

\* The position of the child path c among the children of the node at n.
Position(n, c) ==
  LET node == CHOOSE x \in NodeAt(prevTree, "", n) : TRUE
  IN  CHOOSE i \in 1..Len(node.kids) : ChildPath(n, node.kids[i].key) = c

Rank(table, n, e) ==
  IF ~AtNode(table, n, e) THEN 2
  ELSE IF e.type = "removed" THEN 1
  ELSE IF e.type = "modified" THEN 2
  ELSE 3

C9_RemovedModifiedAdded ==
  op = "detectChanges" /\ Len(emitted) > 1 =>
    LET table == PathTable
    IN  \A n \in Range(stats.entered) :
          \A i, j \in 1..Len(emitted) :
            /\ i < j
            /\ BelowNode(table, n, emitted[i])
            /\ BelowNode(table, n, emitted[j])
            => Rank(table, n, emitted[i]) <= Rank(table, n, emitted[j])

\* As the code delivers them: the notifications for the keys the node
\* already had (removed, modified, and those of recursed children) come
\* interleaved in the node's enumeration order, then all added ones.
IsAddedAt(table, n, e) == AtNode(table, n, e) /\ e.type = "added"

C9_ExistingThenAdded ==
  op = "detectChanges" /\ Len(emitted) > 1 =>
    LET table == PathTable
    IN  \A n \in Range(stats.entered) :
          \A i, j \in 1..Len(emitted) :
            /\ i < j
            /\ BelowNode(table, n, emitted[i])
            /\ BelowNode(table, n, emitted[j])
            => /\ IsAddedAt(table, n, emitted[i])
                    => IsAddedAt(table, n, emitted[j])
               /\ ~IsAddedAt(table, n, emitted[i])
                    /\ ~IsAddedAt(table, n, emitted[j])
                    => Position(n, ChildOf(table, n, emitted[i]))
                         <= Position(n, ChildOf(table, n, emitted[j]))

\* One node delivers modified, removed, added in this order.
C9_Witness ==
  /\ op = "detectChanges"
  /\ emitted = <<Event("modified", "a"), Event("removed", "b"),
                 Event("added", "c")>>

(***************************************************************************)
(* C10.  Order-sensitivity of arrays: when the elements of an array are    *)
(* reordered without changing the multiset of element values,              *)
(* detectChanges emits modified notifications at exactly the index paths   *)
(* whose element differs and no added or removed notification, for arrays  *)
(* of any elements, plain objects included.                                *)
(***************************************************************************)
Count(entries, val) ==
  Cardinality({i \in 1..Len(entries) : entries[i].val = val})

\* The arrays of v and w at the same path that are reorderings of each
\* other.
Reordered(v, w) ==
  {x \in Subvalues(v, "") \X Subvalues(w, "") :
     /\ x[1].path = x[2].path
     /\ x[1].val.k = "arr" /\ x[2].val.k = "arr"
     /\ x[1].val # x[2].val
     /\ Len(x[1].val.e) = Len(x[2].val.e)
     /\ \A i \in 1..Len(x[1].val.e) :
          Count(x[1].val.e, x[1].val.e[i].val)
            = Count(x[2].val.e, x[1].val.e[i].val)}

EventsAt(paths) == SelectSeq(emitted, LAMBDA e : e.path \in paths)

\* The notifications at and below index i of the reordered array x are one
\* modified at the index path when the element differs, none otherwise.
IndexReported(x, i) ==
  LET q == ChildPath(x[1].path, x[1].val.e[i].key)
      old == x[1].val.e[i].val
      new == x[2].val.e[i].val
  IN  EventsAt({q} \cup InnerPaths(old, q) \cup InnerPaths(new, q))
        = IF old # new THEN <<Event("modified", q)>> ELSE <<>>

C10_ArrayReorder ==
  op = "detectChanges" /\ prevSnapshot # <<>> =>
    \A x \in Reordered(prevSnapshot[1], snapshot[1]) :
      \A i \in 1..Len(x[1].val.e) : IndexReported(x, i)

\* The same for arrays whose elements are primitives or opaque objects.
LeafElements(arr) == \A i \in 1..Len(arr.e) : ~IsStructural(arr.e[i].val)

C10_LeafArrayReorder ==
  op = "detectChanges" /\ prevSnapshot # <<>> =>
    \A x \in Reordered(prevSnapshot[1], snapshot[1]) :
      LeafElements(x[1].val) =>
        \A i \in 1..Len(x[1].val.e) : IndexReported(x, i)

\* An array with an opaque element is reordered after earlier updates.
C10_Witness ==
  /\ op = "detectChanges"
  /\ prevSnapshot # <<>>
  /\ prevTree # buildHashTree(prevSnapshot[1])
  /\ \E x \in Reordered(prevSnapshot[1], snapshot[1]) :
       /\ LeafElements(x[1].val)
       /\ \E i \in 1..Len(x[1].val.e) : HasType(x[1].val.e[i].val)
       /\ Len(emitted) = 2

(***************************************************************************)
(* C11: initialize(v) emits no notification and leaves the engine with the *)
(* tree buildHashTree(v), whatever tree it held before; so the first       *)
(* detectChanges(w) after an initialize(v), after any earlier calls, emits *)
(* what an engine just constructed emits for initialize(v) then            *)
(* detectChanges(w).                                                       *)
(***************************************************************************)
\* The notifications of a just constructed engine for initialize(v),
\* detectChanges(w).
FreshRun(v, w) == findDifferencesAndUpdate(buildHashTree(v), w, "").ev

C11_Initialize ==
  /\ op = "initialize" =>
        /\ emitted = <<>>
        /\ previousHashTree = buildHashTree(snapshot[1])
  /\ op = "detectChanges" /\ afterInitialize # "no" =>
        emitted = FreshRun(prevSnapshot[1], snapshot[1])

\* The initialize replaced a tree of earlier calls, and the detectChanges
\* after it had notifications to deliver.
C11_Witness ==
  /\ op = "detectChanges"
  /\ afterInitialize = "used"
  /\ Len(emitted) > 1

(***************************************************************************)
(* C12: after a completed detectChanges(v) the root digest differs from    *)
(* the digest buildHashTree(v) gives only if some node of the tree         *)
(* enumerates the keys of its object in another order than the built tree  *)
(* does; arrays and leaf values never cause a difference.                  *)
(***************************************************************************)
KeysOf(node) == [i \in 1..Len(node.kids) |-> node.kids[i].key]

\* Some node of tree t has the child keys of its counterpart in tree b, in
\* another order.
RECURSIVE KeyOrderDiffers(_, _)
KeyOrderDiffers(t, b) ==
  \/ /\ Keys(t.kids) = Keys(b.kids)
     /\ KeysOf(t) # KeysOf(b)
  \/ \E i \in 1..Len(t.kids) :
       /\ t.kids[i].key \in Keys(b.kids)
       /\ KeyOrderDiffers(t.kids[i].node, Lookup(b.kids, t.kids[i].key).node)

\* The digest of an updated tree depends on the history of the calls.
HistoryDependent ==
  /\ op = "detectChanges"
  /\ previousHashTree.hash # buildHashTree(snapshot[1]).hash

C12_OnlyKeyOrder ==
  HistoryDependent =>
    KeyOrderDiffers(previousHashTree, buildHashTree(snapshot[1]))

\* The example of the caveat: a key was added that sorts before an
\* existing one.
C12_KeyOrderCase ==
  /\ HistoryDependent
  /\ KeyOrderDiffers(previousHashTree, buildHashTree(snapshot[1]))

(***************************************************************************)
(* C13: detectChanges(v) returns without raising for every snapshot v,     *)
(* also for a primitive or null v while the stored tree has children.      *)
(***************************************************************************)
C13_Totality == op # "raised"

(***************************************************************************)
(* C14: deserializing an object tagged Env gives the value of the          *)
(* environment variable whenever the variable is set, the empty string     *)
(* included, and the default only when the variable is not set.            *)
(***************************************************************************)
\* The classes of the script objects in a configuration.
RECURSIVE HostKinds(_)
HostKinds(v) ==
  IF IsHost(v) THEN {v.k}
  ELSE UNION {HostKinds(v.e[i].val) : i \in 1..Len(v.e)}

\* The configuration with every Env replaced as the rule says; a property
\* that becomes undefined is not there.
RECURSIVE Precedence(_, _)
Precedence(v, env) ==
  IF v.k = "Env"
  THEN IF env[v.name] # <<>> THEN Str(env[v.name][1]) ELSE v.default
  ELSE IF v.k = "prim" THEN v
  ELSE
    LET all == [i \in 1..Len(v.e) |->
                  P(v.e[i].key, Precedence(v.e[i].val, env))]
    IN  [v EXCEPT !.e = IF v.k = "arr" THEN all
                        ELSE SelectSeq(all, LAMBDA x : x.val # Undefined)]

C14_EnvPrecedence ==
  obj # <<>> /\ HostKinds(settingsdata[1]) \subseteq {"Env"} =>
    /\ ~obj[1].raised
    /\ obj[1].val = Precedence(settingsdata[1], environment)

\* What the code does: the variable wins when it is set and not empty.
NonEmpty(env) ==
  [name \in DOMAIN env |-> IF env[name] = <<"">> THEN <<>> ELSE env[name]]

C14_NonEmptyEnv ==
  obj # <<>> /\ HostKinds(settingsdata[1]) \subseteq {"Env"} =>
    /\ ~obj[1].raised
    /\ obj[1].val = Precedence(settingsdata[1], NonEmpty(environment))

(***************************************************************************)
(* C15: a Secret(x) that is serialized, written as JSON and deserialized   *)
(* by a Serializer with the same key gives a value equal to x.             *)
(***************************************************************************)
RECURSIVE Unsealed(_)
Unsealed(v) ==
  IF v.k = "Secret" THEN v.json
  ELSE IF v.k = "prim" THEN v
  ELSE [v EXCEPT !.e = [i \in 1..Len(v.e) |->
                          P(v.e[i].key, Unsealed(v.e[i].val))]]

C15_SecretRoundTrip ==
  /\ obj # <<>>
  /\ HostKinds(settingsdata[1]) \subseteq {"Secret"}
  /\ sealedKey = cryptokey
  => /\ ~obj[1].raised
     /\ obj[1].val = Unsealed(settingsdata[1])

\* A Secret of an object, next to a plain value, under a key that is not
\* the first Serializer's.
C15_Witness ==
  /\ obj # <<>>
  /\ settingsdata =
       <<Obj(<<P("a", Secret(Obj(<<P("a", Num(1))>>))), P("b", Num(1))>>)>>
  /\ sealedKey = cryptokey
  /\ cryptokey = MaxKey
  /\ ~obj[1].raised

(***************************************************************************)
(* C16: after every completed detectChanges(v), every node whose value in  *)
(* v is a primitive, null or an opaque object has no children; a key whose *)
(* value turns from a plain object or array into such a value keeps none   *)
(* of the old children.                                                    *)
(***************************************************************************)
RECURSIVE LeavesBare(_, _)
LeavesBare(v, node) ==
  IF ~IsStructural(v) THEN node.kids = <<>>
  ELSE \A i \in 1..Len(v.e) :
         v.e[i].key \in Keys(node.kids) =>
           LeavesBare(v.e[i].val, Lookup(node.kids, v.e[i].key).node)

\* Stated for the nodes below the root of a plain object or array.
C16_LeafInvariant ==
  op = "detectChanges" /\ IsStructural(snapshot[1]) =>
    LeavesBare(snapshot[1], previousHashTree)

(***************************************************************************)
(* C17: at the end of detectChanges the digest of every node the call      *)
(* entered is recomputed by the rule buildHashTree has for that kind of    *)
(* node: for an array the hash of the children's digests in index order    *)
(* without keys, for an object the hash of the 'key:digest' pairs.         *)
(***************************************************************************)
\* The digest buildHashTree's rule gives a node of value v with these kids.
BuilderRule(v, kids) ==
  IF v.k = "arr" THEN calculateHash(JoinHashes(kids, 1))
  ELSE calculateHash(JoinKeyHashes(kids, 1))

RECURSIVE RecomputedByRule(_, _, _)
RecomputedByRule(v, node, path) ==
  IsStructural(v) =>
    /\ path \in Range(stats.entered) =>
         node.hash = BuilderRule(v, node.kids)
    /\ \A i \in 1..Len(v.e) :
         v.e[i].key \in Keys(node.kids) =>
           RecomputedByRule(v.e[i].val,
                            Lookup(node.kids, v.e[i].key).node,
                            ChildPath(path, v.e[i].key))

C17_RecomputationRule ==
  op = "detectChanges" => RecomputedByRule(snapshot[1], previousHashTree, "")

\* For the nodes of plain objects the rule is the builder's.
RECURSIVE ObjectsByRule(_, _, _)
ObjectsByRule(v, node, path) ==
  IsStructural(v) =>
    /\ path \in Range(stats.entered) /\ v.k = "obj" =>
         node.hash = BuilderRule(v, node.kids)
    /\ \A i \in 1..Len(v.e) :
         v.e[i].key \in Keys(node.kids) =>
           ObjectsByRule(v.e[i].val, Lookup(node.kids, v.e[i].key).node,
                         ChildPath(path, v.e[i].key))

C17_ObjectRule ==
  op = "detectChanges" => ObjectsByRule(snapshot[1], previousHashTree, "")

(***************************************************************************)
(* C18: the digest of a structural node is a function of its kind and its  *)
(* children: two nodes of arrays, or two nodes of objects, with the same   *)
(* child keys in the same order and the same child digests carry the same  *)
(* digest, whether buildHashTree made the node or detectChanges recomputed *)
(* it.  The nodes compared are those of the tree before and after the last *)
(* call.                                                                   *)
(***************************************************************************)
\* Kind, children (key and digest, in order) and digest of the structural
\* nodes of a tree that is up to date with v.
RECURSIVE NodeFacts(_, _)
NodeFacts(v, node) ==
  IF ~IsStructural(v) THEN {}
  ELSE {[kind |-> v.k,
         kids |-> [i \in 1..Len(node.kids) |->
                     <<node.kids[i].key, node.kids[i].node.hash>>],
         hash |-> node.hash]}
         \cup UNION {IF v.e[i].key \in Keys(node.kids)
                     THEN NodeFacts(v.e[i].val,
                                    Lookup(node.kids, v.e[i].key).node)
                     ELSE {} : i \in 1..Len(v.e)}

C18_DigestOfChildren ==
  op = "detectChanges" /\ prevSnapshot # <<>> =>
    \A x, y \in NodeFacts(prevSnapshot[1], prevTree)
                  \cup NodeFacts(snapshot[1], previousHashTree) :
      x.kind = y.kind /\ x.kids = y.kids => x.hash = y.hash

\* For the nodes of plain objects the digest is a function of the children.
C18_ObjectDigest ==
  op = "detectChanges" /\ prevSnapshot # <<>> =>
    \A x, y \in NodeFacts(prevSnapshot[1], prevTree)
                  \cup NodeFacts(snapshot[1], previousHashTree) :
      x.kind = "obj" /\ y.kind = "obj" /\ x.kids = y.kids => x.hash = y.hash

(***************************************************************************)
(* C19: the digest of a node is kept apart from its children: a plain      *)
(* object with a property named '__hash' gets a child for that property    *)
(* and keeps its own digest, and adding that property is reported like any *)
(* other key.                                                              *)
(***************************************************************************)
C19_OutOfBand ==
  /\ /\ op \in {"initialize", "detectChanges"}
     /\ IsPlain(snapshot[1])
     /\ HasProp(snapshot[1], HashKey)
     => /\ HashKey \in Keys(previousHashTree.kids)
        /\ previousHashTree.hash # ObjectObject
  /\ /\ op = "detectChanges"
     /\ prevSnapshot # <<>>
     /\ PlusKey(prevSnapshot[1], snapshot[1], HashKey)
     => emitted = <<Event("added", HashKey)>>

(***************************************************************************)
(* C20: after a completed detectChanges(v), at every node of a plain       *)
(* object or array of v the child keys are the property names or indices   *)
(* of that object or array, after any earlier calls.                       *)
(***************************************************************************)
RECURSIVE ShapeFollows(_, _)
ShapeFollows(v, node) ==
  IsStructural(v) =>
    /\ Keys(node.kids) = Keys(v.e)
    /\ \A i \in 1..Len(v.e) :
         v.e[i].key \in Keys(node.kids) =>
           ShapeFollows(v.e[i].val, Lookup(node.kids, v.e[i].key).node)

\* Some object of v has a property named '__hash' (the subject of C19).
RECURSIVE MentionsHashKey(_)
MentionsHashKey(v) ==
  \/ HashKey \in Keys(v.e)
  \/ \E i \in 1..Len(v.e) : MentionsHashKey(v.e[i].val)

\* Stated for the snapshots without a property of that name.
C20_TreeShape ==
  op = "detectChanges" /\ ~MentionsHashKey(snapshot[1]) =>
    ShapeFollows(snapshot[1], previousHashTree)

(***************************************************************************)
(* C21: for a plain object buildHashTree combines the children as          *)
(* 'name:digest' pairs in the lexicographically sorted order of the        *)
(* property names, so objects with the same properties listed in different *)
(* orders get the same digest; for every set of names, names that look     *)
(* like non-negative integers ('2', '10') included.                        *)
(***************************************************************************)
\* 'name:digest' for the names of v in sorted order, from position i on.
RECURSIVE SortedPairs(_, _, _)
SortedPairs(v, sorted, i) ==
  IF i > Len(sorted) THEN ""
  ELSE sorted[i] \o ":" \o buildHashTree(GetProp(v, sorted[i])).hash
         \o SortedPairs(v, sorted, i + 1)

\* Stated for the objects without a property named '__hash' (the subject
\* of C19).
C21_SortedCombination ==
  op = "initialize" /\ ~MentionsHashKey(snapshot[1]) =>
    \A x \in Subvalues(snapshot[1], "") :
      IsPlain(x.val) =>
        buildHashTree(x.val).hash
          = calculateHash(SortedPairs(x.val, SortedKeys(x.val), 1))

\* The same for the objects whose names are no array-index names.
C21_SortedNames ==
  op = "initialize" /\ ~MentionsHashKey(snapshot[1]) =>
    \A x \in Subvalues(snapshot[1], "") :
      IsPlain(x.val) /\ (\A key \in Keys(x.val.e) : ~IsIndex(key)) =>
        buildHashTree(x.val).hash
          = calculateHash(SortedPairs(x.val, SortedKeys(x.val), 1))

\* v and w have the same properties with the same values, at every level.
RECURSIVE SameProperties(_, _)
SameProperties(v, w) ==
  /\ v.k = w.k
  /\ v.s = w.s
  /\ Keys(v.e) = Keys(w.e)
  /\ v.k = "arr" => KeysOf([kids |-> v.e]) = KeysOf([kids |-> w.e])
  /\ \A key \in Keys(v.e) : SameProperties(GetProp(v, key), GetProp(w, key))

\* The digest does not depend on the order the properties are listed in.
C21_OrderIndependent ==
  op = "initialize" =>
    \A w \in Snapshots \cup KeySnapshots :
      SameProperties(snapshot[1], w) /\ ~MentionsHashKey(w) =>
        buildHashTree(w).hash = previousHashTree.hash

(***************************************************************************)
(* C22: for an array buildHashTree makes one child per element under the   *)
(* keys '0', '1', ... in index order and the digest is the hash of the     *)
(* children's digests concatenated in that order; so two arrays of the     *)
(* same length get the same digest exactly when their elements have equal  *)
(* digests at every index.                                                 *)
(***************************************************************************)
\* The arrays that occur in the snapshots.
ArrayValues ==
  {x.val : x \in {y \in UNION {Subvalues(v, "") : v \in Snapshots} :
                    y.val.k = "arr"}}

\* The digests of the elements of an array, in index order.
ElementDigests(arr) ==
  [i \in 1..Len(arr.e) |-> buildHashTree(arr.e[i].val).hash]

Discriminated(v) ==
  \E i \in 1..Len(v.e) :
    v.e[i].key = TypeKey /\ v.e[i].val.s \notin {"\"\"", "0", "null", "false"}

RECURSIVE Classified(_, _)
Classified(v, node) ==
  IF v.k = "prim" THEN node = Node(calculateHash(Stringify(v)), <<>>)
  ELSE IF v.k = "arr"
  THEN /\ KeysOf(node) = [i \in 1..Len(v.e) |-> ToString(i - 1)]
       /\ \A i \in 1..Len(v.e) : Classified(v.e[i].val, node.kids[i].node)
  ELSE IF Discriminated(v)
  THEN node = Node(calculateHash(Stringify(v)), <<>>)
  ELSE /\ Len(node.kids) = Len(v.e)
       /\ Keys(node.kids) = Keys(v.e)
       /\ \A i \in 1..Len(v.e) :
            v.e[i].key \in Keys(node.kids) =>
              Classified(v.e[i].val, Lookup(node.kids, v.e[i].key).node)

C23_Classification ==
  op = "initialize" => Classified(snapshot[1], previousHashTree)

\* An object with the type 0 next to another property is built as a
\* structural node, in place of a tree of earlier calls.
C23_Witness ==
  /\ op = "initialize"
  /\ afterInitialize = "used"
  /\ snapshot = <<Obj(<<P(TypeKey, Num(0)), P("a", Num(1))>>)>>
  /\ Len(previousHashTree.kids) = 2

(***************************************************************************)
(* C24: the path of a notification is the sequence of the keys from the    *)
(* root to the affected node joined with '.', without a leading separator  *)
(* for a top-level key; two affected nodes with different key sequences    *)
(* (no key containing '.') get different paths, also when a key on the way *)
(* is the empty string.                                                    *)
(***************************************************************************)
\* The keys of a sequence joined with '.'.
RECURSIVE Joined(_)
Joined(keys) ==
  IF Len(keys) = 1 THEN keys[1]
  ELSE keys[1] \o "." \o Joined(Tail(keys))

\* The key sequences of the primitive leaves at which alike v and w differ.
RECURSIVE ChangedLeafKeys(_, _, _)
ChangedLeafKeys(v, w, keys) ==
  IF v = w THEN {}
  ELSE IF ~IsObject(v) THEN {keys}
  ELSE UNION {ChangedLeafKeys(GetProp(v, key), GetProp(w, key),
                              Append(keys, key)) : key \in Keys(v.e)}

\* Leaves of plain objects changed, nothing else: the affected nodes are
\* those leaves.
LeavesChanged(v, w) ==
  /\ IsPlain(v) /\ IsPlain(w)
  /\ PlainAlike(v, w)
  /\ ~MentionsHashKey(v)

\* One modified notification per changed leaf, at the joined keys of the
\* leaf, and no two of them at the same path.
PathsJoined(v, w) ==
  LET affected == ChangedLeafKeys(v, w, <<>>)
  IN  /\ {e.path : e \in Range(emitted)} = {Joined(q) : q \in affected}
      /\ Len(emitted) = Cardinality(affected)
      /\ \A i, j \in 1..Len(emitted) :
           emitted[i].path = emitted[j].path => i = j

C24_PathConstruction ==
  /\ op = "detectChanges"
  /\ prevSnapshot # <<>>
  /\ LeavesChanged(prevSnapshot[1], snapshot[1])
  => PathsJoined(prevSnapshot[1], snapshot[1])

\* No key of v is the empty string.
RECURSIVE NoEmptyKey(_)
NoEmptyKey(v) ==
  /\ "" \notin Keys(v.e)
  /\ \A i \in 1..Len(v.e) : NoEmptyKey(v.e[i].val)

\* The same for the snapshots without an empty key.
C24_NonEmptyKeys ==
  /\ op = "detectChanges"
  /\ prevSnapshot # <<>>
  /\ LeavesChanged(prevSnapshot[1], snapshot[1])
  /\ NoEmptyKey(snapshot[1])
  => PathsJoined(prevSnapshot[1], snapshot[1])

(***************************************************************************)
(* C25: after initialize(v0), detectChanges(v1), ..., detectChanges(vn)    *)
(* that completed without error, detectChanges(w) emits, as a set of       *)
(* (type, path) pairs, the notifications an engine just constructed emits  *)
(* for initialize(vn), detectChanges(w).                                   *)
(***************************************************************************)
\* A call that raises leaves the tree and the snapshot as they were and
\* emits nothing, so every tree the engine can hold is the tree of a
\* sequence of calls that completed.
RaisedKeepsTree ==
  op = "raised" => previousHashTree = prevTree /\ emitted = <<>>

\* Stated for the updates from a plain object or array to a plain object or
\* array (an opaque object at the root is the subject of C8).
C25_IncrementalEqualsRebuild ==
  /\ op = "detectChanges"
  /\ prevSnapshot # <<>>
  /\ IsStructural(prevSnapshot[1])
  /\ IsStructural(snapshot[1])
  => Range(emitted) = Range(FreshRun(prevSnapshot[1], snapshot[1]))

(***************************************************************************)
(* C26: in a detectChanges(w) that follows a snapshot v, removed is        *)
(* emitted only for a path that exists in v and not in w, added only for a *)
(* path that exists in w and not in v, modified only for a path that       *)
(* exists in both with different values; no notification is about a key    *)
(* that neither v nor w has.                                               *)
(***************************************************************************)
\* The values of v at the paths below it, the inside of opaque objects
\* included.
RECURSIVE ValuesBelow(_, _)
ValuesBelow(v, path) ==
  UNION {{[path |-> ChildPath(path, v.e[i].key), val |-> v.e[i].val]}
           \cup ValuesBelow(v.e[i].val, ChildPath(path, v.e[i].key)) :
         i \in 1..Len(v.e)}

Sound(e, old, new) ==
  LET inOld == {x.val : x \in {y \in old : y.path = e.path}}
      inNew == {x.val : x \in {y \in new : y.path = e.path}}
  IN  /\ e.type = "removed" => inOld # {} /\ inNew = {}
      /\ e.type = "added" => inOld = {} /\ inNew # {}
      /\ e.type = "modified" => inOld # {} /\ inNew # {} /\ inOld # inNew

\* Stated for the updates from a plain object or array to a plain object or
\* array (an opaque object at the root is the subject of C8).
C26_Soundness ==
  /\ op = "detectChanges"
  /\ prevSnapshot # <<>>
  /\ IsStructural(prevSnapshot[1])
  /\ IsStructural(snapshot[1])
  =>
    LET old == ValuesBelow(prevSnapshot[1], "")
        new == ValuesBelow(snapshot[1], "")
    IN  \A e \in Range(emitted) : Sound(e, old, new)

(***************************************************************************)
(* C27: when the last snapshot the engine processed is v and w is not      *)
(* equal to v (objects compared without regard to the order of their       *)
(* properties), detectChanges(w) emits at least one notification; also     *)
(* when v and w are an empty object and an empty array, or different       *)
(* primitives at the root.                                                 *)
(***************************************************************************)
C27_Completeness ==
  /\ op = "detectChanges"
  /\ prevSnapshot # <<>>
  /\ ~SameProperties(prevSnapshot[1], snapshot[1])
  => emitted # <<>>

(***************************************************************************)
(* C28: detectChanges(v) with a value that cannot be serialized, such as   *)
(* one with a self-reference, raises before a notification is emitted and  *)
(* before the tree is changed: the tree and its digests are as before the  *)
(* call, so a later detectChanges of a valid snapshot behaves as if the    *)
(* failed call had not happened.                                           *)
(***************************************************************************)
\* The tree is the whole state of the engine, so a call that leaves it as
\* it was leaves every later call as it would have been.
C28_FailedUpdate ==
  op \in {"raised", "detectChanges"} /\ ~Serializable(argument[1]) =>
    /\ op = "raised"
    /\ emitted = <<>>
    /\ previousHashTree = prevTree
    /\ snapshot = prevSnapshot
    /\ stats.calls = 0

\* The failed call came after earlier updates, with a value that has a key
\* the tree does not have and lacks a key the tree has.
C28_Witness ==
  /\ op = "raised"
  /\ argument = <<Circular(<<P("c", Num(1))>>)>>
  /\ "a" \in Keys(previousHashTree.kids)
  /\ previousHashTree # buildHashTree(snapshot[1])

(***************************************************************************)
(* C29: on an engine just constructed, detectChanges(v) with a plain       *)
(* object or array v emits exactly one added notification per top-level    *)
(* key or index of v, in v's enumeration order, and none for nested paths, *)
(* and leaves the engine in the same observable state as initialize(v) for *)
(* the purpose of later notifications.                                     *)
(***************************************************************************)
\* The tree a just constructed engine holds after detectChanges(v).
FirstUpdate(v) == findDifferencesAndUpdate(EmptyTree, v, "").node

AddedPerKey(v) == [i \in 1..Len(v.e) |-> Event("added", v.e[i].key)]

\* The first call of the engine was detectChanges(v) and has returned.
FirstCall == op = "detectChanges" /\ prevTree = EmptyTree

\* detectChanges(w) has returned and the tree before it was the tree a
\* first call detectChanges(v) leaves.
AfterFirstUpdate ==
  /\ op = "detectChanges"
  /\ prevSnapshot # <<>>
  /\ IsStructural(prevSnapshot[1])
  /\ prevTree = FirstUpdate(prevSnapshot[1])

C29_UpdateWithoutInitialize ==
  /\ FirstCall /\ IsStructural(snapshot[1])
       => emitted = AddedPerKey(snapshot[1])
  /\ AfterFirstUpdate => emitted = FreshRun(prevSnapshot[1], snapshot[1])

\* The first call emits one added notification per top-level key.
C29_FirstUpdateEmits ==
  FirstCall /\ IsStructural(snapshot[1]) => emitted = AddedPerKey(snapshot[1])

\* The later notifications are the same as a set.
C29_SameSetAsInitialize ==
  /\ op = "detectChanges"
  /\ prevSnapshot # <<>>
  /\ IsStructural(prevSnapshot[1])
  /\ prevTree = FirstUpdate(prevSnapshot[1])
  => Range(emitted) = Range(FreshRun(prevSnapshot[1], snapshot[1]))

(***************************************************************************)
(* C30: when the new snapshot w has the same keys and values as the        *)
(* previous snapshot v at every level and differs from v only in the order *)
(* in which the properties of objects are listed, detectChanges(w) emits   *)
(* no notification and leaves every digest of the tree unchanged.          *)
(***************************************************************************)
\* w lists the properties of some object of v in another order.
OnlyOrderDiffers(v, w) == v # w /\ SameProperties(v, w)

\* Stated for the updates from a plain object or array to a plain object or
\* array (an opaque object at the root is the subject of C8).
C30_OrderInsensitive ==
  /\ op = "detectChanges"
  /\ prevSnapshot # <<>>
  /\ IsStructural(prevSnapshot[1])
  /\ OnlyOrderDiffers(prevSnapshot[1], snapshot[1])
  => /\ emitted = <<>>
     /\ previousHashTree = prevTree

\* The same for the snapshots without an opaque object.
RECURSIVE NoOpaque(_)
NoOpaque(v) ==
  /\ ~HasType(v)
  /\ \A i \in 1..Len(v.e) : NoOpaque(v.e[i].val)

C30_PlainObjects ==
  /\ op = "detectChanges"
  /\ prevSnapshot # <<>>
  /\ IsStructural(prevSnapshot[1])
  /\ OnlyOrderDiffers(prevSnapshot[1], snapshot[1])
  /\ NoOpaque(snapshot[1])
  => /\ emitted = <<>>
     /\ previousHashTree = prevTree

====
